---- MODULE Spec2Model ----
(***************************************************************************)
(* Model of ai_interview.py: a Streamlit script that loads a question      *)
(* sheet, asks for a candidate name, loops over the questions (record,     *)
(* transcribe, score), stores the results in SQLite and shows a report.    *)
(*                                                                         *)
(* Three specifications:                                                   *)
(*   Spec       the page: the script runs top to bottom and is run again   *)
(*              whenever the page asks for it (name changed, rerun,        *)
(*              reload), cutting a running script short at its next st     *)
(*              call;                                                      *)
(*   ScoreSpec  score_response in model mode on drawn replies;             *)
(*   MatchSpec  score_response in non-model mode on drawn answer pairs.    *)
(*                                                                         *)
(* A text is the sequence of its Unicode code points.  The character       *)
(* tables (whitespace, decimal digits, lower case, cased and               *)
(* case-ignorable characters, case folding) are those of the Unicode       *)
(* 14.0 database of CPython 3.11.                                          *)
(***************************************************************************)
EXTENDS Integers, Sequences, FiniteSets, TLC

VARIABLES
    api_key_set,     \* environment: OPENROUTER_API_KEY is set and non-empty
    file_exists,     \* environment: the question sheet exists at file_path
    sheet,           \* environment: [columns, rows] of the question sheet
    table0,          \* interviews.db "results" table when this run started
    table,           \* interviews.db "results" table now
    cache,           \* st.cache_data entry of load_questions
    text_input,      \* value of the "Enter Candidate Name" widget
    widget_shown,    \* the text input is on the page
    rerun_requested, \* Streamlit has been asked to run the script again
    pc,              \* position of the script run
    error,           \* exception that ended the script run, or "none"
    questions_df,    \* main's local questions_df
    candidate_name,  \* main's local candidate_name
    responses,       \* main's local responses (insertion-ordered dict)
    idx,             \* position of the for loop over questions_df.iterrows()
    display,         \* what this run has put on the page, in order
    mic,             \* microphone: [held, opened]
    posts,           \* requests.post calls made, in order
    user_answer,     \* score_response argument
    correct_answer,  \* score_response argument
    use_ai,          \* score_response argument
    reply,           \* what requests.post gives back for the next call
    outcome,         \* how the score_response call ended
    spc              \* position of the score_response call

vars == <<api_key_set, file_exists, sheet, table0, table, cache, text_input,
          widget_shown, rerun_requested, pc, error, questions_df,
          candidate_name, responses, idx, display, mic, posts, user_answer, correct_answer, use_ai, reply, outcome, spc>>

sessionVars == <<api_key_set, file_exists, sheet, table0, table, cache,
                 text_input, widget_shown, rerun_requested, pc, error,
                 questions_df, candidate_name,
                 responses, idx, display, mic>>

scoreInputs == <<user_answer, correct_answer, use_ai, reply>>

scoreVars == <<posts, user_answer, correct_answer, use_ai, reply, outcome, spc>>

----------------------------------------------------------------------------
(* Bounds *)

MaxAnswerLen == 3

MaxReplyLen == 3

MaxRows == 2

----------------------------------------------------------------------------
(* Text *)

Texts(alphabet, n) == UNION {[1..k -> alphabet] : k \in 0..n}

Least(S) == CHOOSE x \in S : \A y \in S : x <= y

Greatest(S) == CHOOSE x \in S : \A y \in S : x >= y

InRanges(c, R) == \E r \in R : r[1] <= c /\ c <= r[2]

\* <<lo, hi, step, delta>>: lo, lo + step, ..., hi each map to itself + delta
InRule(c, r) == r[1] <= c /\ c <= r[2] /\ (c - r[1]) % r[3] = 0

\* the characters str.strip() removes (str.isspace)
Whitespace ==
    (9..13) \cup (28..32) \cup {133, 160, 5760} \cup (8192..8202)
    \cup {8232, 8233, 8239, 8287, 12288}

\* the characters int() skips around a literal: as above, but of the ASCII
\* characters only those of C isspace
IntWhitespace == Whitespace \ (28..31)

\* the code point of the digit zero of every decimal digit block
DigitZeros == {
    48, 1632, 1776, 1984, 2406, 2534, 2662, 2790, 2918, 3046, 3174, 3302,
    3430, 3558, 3664, 3792, 3872, 4160, 4240, 6112, 6160, 6470, 6608, 6784,
    6800, 6992, 7088, 7232, 7248, 42528, 43216, 43264, 43472, 43504, 43600,
    44016, 65296, 66720, 68912, 69734, 69872, 69942, 70096, 70384, 70736,
    70864, 71248, 71360, 71472, 71904, 72016, 72784, 73040, 73120, 92768,
    92864, 93008, 120782, 120792, 120802, 120812, 120822, 123200, 123632,
    125264, 130032}

\* str.isdecimal, one character
IsDigit(c) == \E z \in DigitZeros : c \in z..(z + 9)

DigitVal(c) == c - (CHOOSE z \in DigitZeros : c \in z..(z + 9))

\* the characters with a one-character lower case other than themselves
LowerRules == {
    <<65, 90, 1, 32>>, <<192, 214, 1, 32>>, <<216, 222, 1, 32>>, <<256, 302,
    2, 1>>, <<306, 310, 2, 1>>, <<313, 327, 2, 1>>, <<330, 374, 2, 1>>,
    <<376, 376, 1, -121>>, <<377, 381, 2, 1>>, <<385, 385, 1, 210>>, <<386,
    388, 2, 1>>, <<390, 390, 1, 206>>, <<391, 391, 1, 1>>, <<393, 394, 1,
    205>>, <<395, 395, 1, 1>>, <<398, 398, 1, 79>>, <<399, 399, 1, 202>>,
    <<400, 400, 1, 203>>, <<401, 401, 1, 1>>, <<403, 403, 1, 205>>, <<404,
    404, 1, 207>>, <<406, 406, 1, 211>>, <<407, 407, 1, 209>>, <<408, 408,
    1, 1>>, <<412, 412, 1, 211>>, <<413, 413, 1, 213>>, <<415, 415, 1,
    214>>, <<416, 420, 2, 1>>, <<422, 422, 1, 218>>, <<423, 423, 1, 1>>,
    <<425, 425, 1, 218>>, <<428, 428, 1, 1>>, <<430, 430, 1, 218>>, <<431,
    431, 1, 1>>, <<433, 434, 1, 217>>, <<435, 437, 2, 1>>, <<439, 439, 1,
    219>>, <<440, 440, 1, 1>>, <<444, 444, 1, 1>>, <<452, 452, 1, 2>>,
    <<453, 453, 1, 1>>, <<455, 455, 1, 2>>, <<456, 456, 1, 1>>, <<458, 458,
    1, 2>>, <<459, 475, 2, 1>>, <<478, 494, 2, 1>>, <<497, 497, 1, 2>>,
    <<498, 500, 2, 1>>, <<502, 502, 1, -97>>, <<503, 503, 1, -56>>, <<504,
    542, 2, 1>>, <<544, 544, 1, -130>>, <<546, 562, 2, 1>>, <<570, 570, 1,
    10795>>, <<571, 571, 1, 1>>, <<573, 573, 1, -163>>, <<574, 574, 1,
    10792>>, <<577, 577, 1, 1>>, <<579, 579, 1, -195>>, <<580, 580, 1, 69>>,
    <<581, 581, 1, 71>>, <<582, 590, 2, 1>>, <<880, 882, 2, 1>>, <<886, 886,
    1, 1>>, <<895, 895, 1, 116>>, <<902, 902, 1, 38>>, <<904, 906, 1, 37>>,
    <<908, 908, 1, 64>>, <<910, 911, 1, 63>>, <<913, 929, 1, 32>>, <<931,
    939, 1, 32>>, <<975, 975, 1, 8>>, <<984, 1006, 2, 1>>, <<1012, 1012, 1,
    -60>>, <<1015, 1015, 1, 1>>, <<1017, 1017, 1, -7>>, <<1018, 1018, 1,
    1>>, <<1021, 1023, 1, -130>>, <<1024, 1039, 1, 80>>, <<1040, 1071, 1,
    32>>, <<1120, 1152, 2, 1>>, <<1162, 1214, 2, 1>>, <<1216, 1216, 1, 15>>,
    <<1217, 1229, 2, 1>>, <<1232, 1326, 2, 1>>, <<1329, 1366, 1, 48>>,
    <<4256, 4293, 1, 7264>>, <<4295, 4295, 1, 7264>>, <<4301, 4301, 1,
    7264>>, <<5024, 5103, 1, 38864>>, <<5104, 5109, 1, 8>>, <<7312, 7354, 1,
    -3008>>, <<7357, 7359, 1, -3008>>, <<7680, 7828, 2, 1>>, <<7838, 7838,
    1, -7615>>, <<7840, 7934, 2, 1>>, <<7944, 7951, 1, -8>>, <<7960, 7965,
    1, -8>>, <<7976, 7983, 1, -8>>, <<7992, 7999, 1, -8>>, <<8008, 8013, 1,
    -8>>, <<8025, 8031, 2, -8>>, <<8040, 8047, 1, -8>>, <<8072, 8079, 1,
    -8>>, <<8088, 8095, 1, -8>>, <<8104, 8111, 1, -8>>, <<8120, 8121, 1,
    -8>>, <<8122, 8123, 1, -74>>, <<8124, 8124, 1, -9>>, <<8136, 8139, 1,
    -86>>, <<8140, 8140, 1, -9>>, <<8152, 8153, 1, -8>>, <<8154, 8155, 1,
    -100>>, <<8168, 8169, 1, -8>>, <<8170, 8171, 1, -112>>, <<8172, 8172, 1,
    -7>>, <<8184, 8185, 1, -128>>, <<8186, 8187, 1, -126>>, <<8188, 8188, 1,
    -9>>, <<8486, 8486, 1, -7517>>, <<8490, 8490, 1, -8383>>, <<8491, 8491,
    1, -8262>>, <<8498, 8498, 1, 28>>, <<8544, 8559, 1, 16>>, <<8579, 8579,
    1, 1>>, <<9398, 9423, 1, 26>>, <<11264, 11311, 1, 48>>, <<11360, 11360,
    1, 1>>, <<11362, 11362, 1, -10743>>, <<11363, 11363, 1, -3814>>,
    <<11364, 11364, 1, -10727>>, <<11367, 11371, 2, 1>>, <<11373, 11373, 1,
    -10780>>, <<11374, 11374, 1, -10749>>, <<11375, 11375, 1, -10783>>,
    <<11376, 11376, 1, -10782>>, <<11378, 11378, 1, 1>>, <<11381, 11381, 1,
    1>>, <<11390, 11391, 1, -10815>>, <<11392, 11490, 2, 1>>, <<11499,
    11501, 2, 1>>, <<11506, 11506, 1, 1>>, <<42560, 42604, 2, 1>>, <<42624,
    42650, 2, 1>>, <<42786, 42798, 2, 1>>, <<42802, 42862, 2, 1>>, <<42873,
    42875, 2, 1>>, <<42877, 42877, 1, -35332>>, <<42878, 42886, 2, 1>>,
    <<42891, 42891, 1, 1>>, <<42893, 42893, 1, -42280>>, <<42896, 42898, 2,
    1>>, <<42902, 42920, 2, 1>>, <<42922, 42922, 1, -42308>>, <<42923,
    42923, 1, -42319>>, <<42924, 42924, 1, -42315>>, <<42925, 42925, 1,
    -42305>>, <<42926, 42926, 1, -42308>>, <<42928, 42928, 1, -42258>>,
    <<42929, 42929, 1, -42282>>, <<42930, 42930, 1, -42261>>, <<42931,
    42931, 1, 928>>, <<42932, 42946, 2, 1>>, <<42948, 42948, 1, -48>>,
    <<42949, 42949, 1, -42307>>, <<42950, 42950, 1, -35384>>, <<42951,
    42953, 2, 1>>, <<42960, 42960, 1, 1>>, <<42966, 42968, 2, 1>>, <<42997,
    42997, 1, 1>>, <<65313, 65338, 1, 32>>, <<66560, 66599, 1, 40>>,
    <<66736, 66771, 1, 40>>, <<66928, 66964, 2, 39>>, <<66929, 66937, 2,
    39>>, <<66941, 66953, 2, 39>>, <<66957, 66961, 2, 39>>, <<66965, 66965,
    1, 39>>, <<68736, 68786, 1, 64>>, <<71840, 71871, 1, 32>>, <<93760,
    93791, 1, 32>>, <<125184, 125217, 1, 34>>}

\* the case-ignorable characters
CaseIgnorableRanges == {
    <<39, 39>>, <<46, 46>>, <<58, 58>>, <<94, 94>>, <<96, 96>>, <<168,
    168>>, <<173, 173>>, <<175, 175>>, <<180, 180>>, <<183, 184>>, <<688,
    879>>, <<884, 885>>, <<890, 890>>, <<900, 901>>, <<903, 903>>, <<1155,
    1161>>, <<1369, 1369>>, <<1375, 1375>>, <<1425, 1469>>, <<1471, 1471>>,
    <<1473, 1474>>, <<1476, 1477>>, <<1479, 1479>>, <<1524, 1524>>, <<1536,
    1541>>, <<1552, 1562>>, <<1564, 1564>>, <<1600, 1600>>, <<1611, 1631>>,
    <<1648, 1648>>, <<1750, 1757>>, <<1759, 1768>>, <<1770, 1773>>, <<1807,
    1807>>, <<1809, 1809>>, <<1840, 1866>>, <<1958, 1968>>, <<2027, 2037>>,
    <<2042, 2042>>, <<2045, 2045>>, <<2070, 2093>>, <<2137, 2139>>, <<2184,
    2184>>, <<2192, 2193>>, <<2200, 2207>>, <<2249, 2306>>, <<2362, 2362>>,
    <<2364, 2364>>, <<2369, 2376>>, <<2381, 2381>>, <<2385, 2391>>, <<2402,
    2403>>, <<2417, 2417>>, <<2433, 2433>>, <<2492, 2492>>, <<2497, 2500>>,
    <<2509, 2509>>, <<2530, 2531>>, <<2558, 2558>>, <<2561, 2562>>, <<2620,
    2620>>, <<2625, 2626>>, <<2631, 2632>>, <<2635, 2637>>, <<2641, 2641>>,
    <<2672, 2673>>, <<2677, 2677>>, <<2689, 2690>>, <<2748, 2748>>, <<2753,
    2757>>, <<2759, 2760>>, <<2765, 2765>>, <<2786, 2787>>, <<2810, 2815>>,
    <<2817, 2817>>, <<2876, 2876>>, <<2879, 2879>>, <<2881, 2884>>, <<2893,
    2893>>, <<2901, 2902>>, <<2914, 2915>>, <<2946, 2946>>, <<3008, 3008>>,
    <<3021, 3021>>, <<3072, 3072>>, <<3076, 3076>>, <<3132, 3132>>, <<3134,
    3136>>, <<3142, 3144>>, <<3146, 3149>>, <<3157, 3158>>, <<3170, 3171>>,
    <<3201, 3201>>, <<3260, 3260>>, <<3263, 3263>>, <<3270, 3270>>, <<3276,
    3277>>, <<3298, 3299>>, <<3328, 3329>>, <<3387, 3388>>, <<3393, 3396>>,
    <<3405, 3405>>, <<3426, 3427>>, <<3457, 3457>>, <<3530, 3530>>, <<3538,
    3540>>, <<3542, 3542>>, <<3633, 3633>>, <<3636, 3642>>, <<3654, 3662>>,
    <<3761, 3761>>, <<3764, 3772>>, <<3782, 3782>>, <<3784, 3789>>, <<3864,
    3865>>, <<3893, 3893>>, <<3895, 3895>>, <<3897, 3897>>, <<3953, 3966>>,
    <<3968, 3972>>, <<3974, 3975>>, <<3981, 3991>>, <<3993, 4028>>, <<4038,
    4038>>, <<4141, 4144>>, <<4146, 4151>>, <<4153, 4154>>, <<4157, 4158>>,
    <<4184, 4185>>, <<4190, 4192>>, <<4209, 4212>>, <<4226, 4226>>, <<4229,
    4230>>, <<4237, 4237>>, <<4253, 4253>>, <<4348, 4348>>, <<4957, 4959>>,
    <<5906, 5908>>, <<5938, 5939>>, <<5970, 5971>>, <<6002, 6003>>, <<6068,
    6069>>, <<6071, 6077>>, <<6086, 6086>>, <<6089, 6099>>, <<6103, 6103>>,
    <<6109, 6109>>, <<6155, 6159>>, <<6211, 6211>>, <<6277, 6278>>, <<6313,
    6313>>, <<6432, 6434>>, <<6439, 6440>>, <<6450, 6450>>, <<6457, 6459>>,
    <<6679, 6680>>, <<6683, 6683>>, <<6742, 6742>>, <<6744, 6750>>, <<6752,
    6752>>, <<6754, 6754>>, <<6757, 6764>>, <<6771, 6780>>, <<6783, 6783>>,
    <<6823, 6823>>, <<6832, 6862>>, <<6912, 6915>>, <<6964, 6964>>, <<6966,
    6970>>, <<6972, 6972>>, <<6978, 6978>>, <<7019, 7027>>, <<7040, 7041>>,
    <<7074, 7077>>, <<7080, 7081>>, <<7083, 7085>>, <<7142, 7142>>, <<7144,
    7145>>, <<7149, 7149>>, <<7151, 7153>>, <<7212, 7219>>, <<7222, 7223>>,
    <<7288, 7293>>, <<7376, 7378>>, <<7380, 7392>>, <<7394, 7400>>, <<7405,
    7405>>, <<7412, 7412>>, <<7416, 7417>>, <<7468, 7530>>, <<7544, 7544>>,
    <<7579, 7679>>, <<8125, 8125>>, <<8127, 8129>>, <<8141, 8143>>, <<8157,
    8159>>, <<8173, 8175>>, <<8189, 8190>>, <<8203, 8207>>, <<8216, 8217>>,
    <<8228, 8228>>, <<8231, 8231>>, <<8234, 8238>>, <<8288, 8292>>, <<8294,
    8303>>, <<8305, 8305>>, <<8319, 8319>>, <<8336, 8348>>, <<8400, 8432>>,
    <<11388, 11389>>, <<11503, 11505>>, <<11631, 11631>>, <<11647, 11647>>,
    <<11744, 11775>>, <<11823, 11823>>, <<12293, 12293>>, <<12330, 12333>>,
    <<12337, 12341>>, <<12347, 12347>>, <<12441, 12446>>, <<12540, 12542>>,
    <<40981, 40981>>, <<42232, 42237>>, <<42508, 42508>>, <<42607, 42610>>,
    <<42612, 42621>>, <<42623, 42623>>, <<42652, 42655>>, <<42736, 42737>>,
    <<42752, 42785>>, <<42864, 42864>>, <<42888, 42890>>, <<42994, 42996>>,
    <<43000, 43001>>, <<43010, 43010>>, <<43014, 43014>>, <<43019, 43019>>,
    <<43045, 43046>>, <<43052, 43052>>, <<43204, 43205>>, <<43232, 43249>>,
    <<43263, 43263>>, <<43302, 43309>>, <<43335, 43345>>, <<43392, 43394>>,
    <<43443, 43443>>, <<43446, 43449>>, <<43452, 43453>>, <<43471, 43471>>,
    <<43493, 43494>>, <<43561, 43566>>, <<43569, 43570>>, <<43573, 43574>>,
    <<43587, 43587>>, <<43596, 43596>>, <<43632, 43632>>, <<43644, 43644>>,
    <<43696, 43696>>, <<43698, 43700>>, <<43703, 43704>>, <<43710, 43711>>,
    <<43713, 43713>>, <<43741, 43741>>, <<43756, 43757>>, <<43763, 43764>>,
    <<43766, 43766>>, <<43867, 43871>>, <<43881, 43883>>, <<44005, 44005>>,
    <<44008, 44008>>, <<44013, 44013>>, <<64286, 64286>>, <<64434, 64450>>,
    <<65024, 65039>>, <<65043, 65043>>, <<65056, 65071>>, <<65106, 65106>>,
    <<65109, 65109>>, <<65279, 65279>>, <<65287, 65287>>, <<65294, 65294>>,
    <<65306, 65306>>, <<65342, 65342>>, <<65344, 65344>>, <<65392, 65392>>,
    <<65438, 65439>>, <<65507, 65507>>, <<65529, 65531>>, <<66045, 66045>>,
    <<66272, 66272>>, <<66422, 66426>>, <<67456, 67461>>, <<67463, 67504>>,
    <<67506, 67514>>, <<68097, 68099>>, <<68101, 68102>>, <<68108, 68111>>,
    <<68152, 68154>>, <<68159, 68159>>, <<68325, 68326>>, <<68900, 68903>>,
    <<69291, 69292>>, <<69446, 69456>>, <<69506, 69509>>, <<69633, 69633>>,
    <<69688, 69702>>, <<69744, 69744>>, <<69747, 69748>>, <<69759, 69761>>,
    <<69811, 69814>>, <<69817, 69818>>, <<69821, 69821>>, <<69826, 69826>>,
    <<69837, 69837>>, <<69888, 69890>>, <<69927, 69931>>, <<69933, 69940>>,
    <<70003, 70003>>, <<70016, 70017>>, <<70070, 70078>>, <<70089, 70092>>,
    <<70095, 70095>>, <<70191, 70193>>, <<70196, 70196>>, <<70198, 70199>>,
    <<70206, 70206>>, <<70367, 70367>>, <<70371, 70378>>, <<70400, 70401>>,
    <<70459, 70460>>, <<70464, 70464>>, <<70502, 70508>>, <<70512, 70516>>,
    <<70712, 70719>>, <<70722, 70724>>, <<70726, 70726>>, <<70750, 70750>>,
    <<70835, 70840>>, <<70842, 70842>>, <<70847, 70848>>, <<70850, 70851>>,
    <<71090, 71093>>, <<71100, 71101>>, <<71103, 71104>>, <<71132, 71133>>,
    <<71219, 71226>>, <<71229, 71229>>, <<71231, 71232>>, <<71339, 71339>>,
    <<71341, 71341>>, <<71344, 71349>>, <<71351, 71351>>, <<71453, 71455>>,
    <<71458, 71461>>, <<71463, 71467>>, <<71727, 71735>>, <<71737, 71738>>,
    <<71995, 71996>>, <<71998, 71998>>, <<72003, 72003>>, <<72148, 72151>>,
    <<72154, 72155>>, <<72160, 72160>>, <<72193, 72202>>, <<72243, 72248>>,
    <<72251, 72254>>, <<72263, 72263>>, <<72273, 72278>>, <<72281, 72283>>,
    <<72330, 72342>>, <<72344, 72345>>, <<72752, 72758>>, <<72760, 72765>>,
    <<72767, 72767>>, <<72850, 72871>>, <<72874, 72880>>, <<72882, 72883>>,
    <<72885, 72886>>, <<73009, 73014>>, <<73018, 73018>>, <<73020, 73021>>,
    <<73023, 73029>>, <<73031, 73031>>, <<73104, 73105>>, <<73109, 73109>>,
    <<73111, 73111>>, <<73459, 73460>>, <<78896, 78904>>, <<92912, 92916>>,
    <<92976, 92982>>, <<92992, 92995>>, <<94031, 94031>>, <<94095, 94111>>,
    <<94176, 94177>>, <<94179, 94180>>, <<110576, 110579>>, <<110581,
    110587>>, <<110589, 110590>>, <<113821, 113822>>, <<113824, 113827>>,
    <<118528, 118573>>, <<118576, 118598>>, <<119143, 119145>>, <<119155,
    119170>>, <<119173, 119179>>, <<119210, 119213>>, <<119362, 119364>>,
    <<121344, 121398>>, <<121403, 121452>>, <<121461, 121461>>, <<121476,
    121476>>, <<121499, 121503>>, <<121505, 121519>>, <<122880, 122886>>,
    <<122888, 122904>>, <<122907, 122913>>, <<122915, 122916>>, <<122918,
    122922>>, <<123184, 123197>>, <<123566, 123566>>, <<123628, 123631>>,
    <<125136, 125142>>, <<125252, 125259>>, <<127995, 127999>>, <<917505,
    917505>>, <<917536, 917631>>, <<917760, 917999>>}

\* the cased characters that are not case-ignorable
CasedRanges == {
    <<65, 90>>, <<97, 122>>, <<170, 170>>, <<181, 181>>, <<186, 186>>,
    <<192, 214>>, <<216, 246>>, <<248, 442>>, <<444, 447>>, <<452, 659>>,
    <<661, 687>>, <<880, 883>>, <<886, 887>>, <<891, 893>>, <<895, 895>>,
    <<902, 902>>, <<904, 906>>, <<908, 908>>, <<910, 929>>, <<931, 1013>>,
    <<1015, 1153>>, <<1162, 1327>>, <<1329, 1366>>, <<1376, 1416>>, <<4256,
    4293>>, <<4295, 4295>>, <<4301, 4301>>, <<4304, 4346>>, <<4349, 4351>>,
    <<5024, 5109>>, <<5112, 5117>>, <<7296, 7304>>, <<7312, 7354>>, <<7357,
    7359>>, <<7424, 7467>>, <<7531, 7543>>, <<7545, 7578>>, <<7680, 7957>>,
    <<7960, 7965>>, <<7968, 8005>>, <<8008, 8013>>, <<8016, 8023>>, <<8025,
    8025>>, <<8027, 8027>>, <<8029, 8029>>, <<8031, 8061>>, <<8064, 8116>>,
    <<8118, 8124>>, <<8126, 8126>>, <<8130, 8132>>, <<8134, 8140>>, <<8144,
    8147>>, <<8150, 8155>>, <<8160, 8172>>, <<8178, 8180>>, <<8182, 8188>>,
    <<8450, 8450>>, <<8455, 8455>>, <<8458, 8467>>, <<8469, 8469>>, <<8473,
    8477>>, <<8484, 8484>>, <<8486, 8486>>, <<8488, 8488>>, <<8490, 8493>>,
    <<8495, 8500>>, <<8505, 8505>>, <<8508, 8511>>, <<8517, 8521>>, <<8526,
    8526>>, <<8544, 8575>>, <<8579, 8580>>, <<9398, 9449>>, <<11264,
    11387>>, <<11390, 11492>>, <<11499, 11502>>, <<11506, 11507>>, <<11520,
    11557>>, <<11559, 11559>>, <<11565, 11565>>, <<42560, 42605>>, <<42624,
    42651>>, <<42786, 42863>>, <<42865, 42887>>, <<42891, 42894>>, <<42896,
    42954>>, <<42960, 42961>>, <<42963, 42963>>, <<42965, 42969>>, <<42997,
    42998>>, <<43002, 43002>>, <<43824, 43866>>, <<43872, 43880>>, <<43888,
    43967>>, <<64256, 64262>>, <<64275, 64279>>, <<65313, 65338>>, <<65345,
    65370>>, <<66560, 66639>>, <<66736, 66771>>, <<66776, 66811>>, <<66928,
    66938>>, <<66940, 66954>>, <<66956, 66962>>, <<66964, 66965>>, <<66967,
    66977>>, <<66979, 66993>>, <<66995, 67001>>, <<67003, 67004>>, <<68736,
    68786>>, <<68800, 68850>>, <<71840, 71903>>, <<93760, 93823>>, <<119808,
    119892>>, <<119894, 119964>>, <<119966, 119967>>, <<119970, 119970>>,
    <<119973, 119974>>, <<119977, 119980>>, <<119982, 119993>>, <<119995,
    119995>>, <<119997, 120003>>, <<120005, 120069>>, <<120071, 120074>>,
    <<120077, 120084>>, <<120086, 120092>>, <<120094, 120121>>, <<120123,
    120126>>, <<120128, 120132>>, <<120134, 120134>>, <<120138, 120144>>,
    <<120146, 120485>>, <<120488, 120512>>, <<120514, 120538>>, <<120540,
    120570>>, <<120572, 120596>>, <<120598, 120628>>, <<120630, 120654>>,
    <<120656, 120686>>, <<120688, 120712>>, <<120714, 120744>>, <<120746,
    120770>>, <<120772, 120779>>, <<122624, 122633>>, <<122635, 122654>>,
    <<125184, 125251>>, <<127280, 127305>>, <<127312, 127337>>, <<127344,
    127369>>}

CaseIgnorable(c) == InRanges(c, CaseIgnorableRanges)

Cased(c) == InRanges(c, CasedRanges)

\* str.lower(), one character out of context
LowerChar(c) ==
    IF \E r \in LowerRules : InRule(c, r)
    THEN c + (CHOOSE r \in LowerRules : InRule(c, r))[4]
    ELSE c

\* the capital sigma at s[i] ends a word: a cased character before it and
\* none after it, case-ignorable characters skipped
FinalSigma(s, i) ==
    LET before == {j \in 1..(i - 1) : ~CaseIgnorable(s[j])}
        after == {j \in (i + 1)..Len(s) : ~CaseIgnorable(s[j])}
    IN  /\ before # {}
        /\ Cased(s[Greatest(before)])
        /\ after = {} \/ ~Cased(s[Least(after)])

\* str.lower(), the character at s[i]
LowerAt(s, i) ==
    IF s[i] = 304 THEN <<105, 775>>
    ELSE IF s[i] = 931 THEN <<IF FinalSigma(s, i) THEN 962 ELSE 963>>
    ELSE <<LowerChar(s[i])>>

RECURSIVE LowerFrom(_, _)
LowerFrom(s, i) ==
    IF i > Len(s) THEN <<>> ELSE LowerAt(s, i) \o LowerFrom(s, i + 1)

\* str.lower()
Lower(s) == LowerFrom(s, 1)

RECURSIVE LStrip(_, _)
LStrip(s, ws) ==
    IF s # <<>> /\ Head(s) \in ws THEN LStrip(Tail(s), ws) ELSE s

RECURSIVE RStrip(_, _)
RStrip(s, ws) ==
    IF s # <<>> /\ s[Len(s)] \in ws
    THEN RStrip(SubSeq(s, 1, Len(s) - 1), ws)
    ELSE s

\* str.strip()
Strip(s) == RStrip(LStrip(s, Whitespace), Whitespace)

----------------------------------------------------------------------------
(* score_response *)

HTTP_OK == 200

MIN_SCORE == 0

MAX_SCORE == 10

\* sys.get_int_max_str_digits(), the default of CPython 3.11
INT_MAX_STR_DIGITS == 4300

Returned(v) == [kind |-> "return", value |-> v, exc |-> "none"]

Raised(e) == [kind |-> "raise", value |-> -1, exc |-> e]

Pending == [kind |-> "pending", value |-> -1, exc |-> "none"]

\* the digit part of an int() literal: digits, single underscores between
\* them, no more digits than int() converts
ValidDigits(d) ==
    /\ d # <<>>
    /\ Cardinality({i \in 1..Len(d) : d[i] # 95}) <= INT_MAX_STR_DIGITS
    /\ \A i \in 1..Len(d) : IsDigit(d[i]) \/ d[i] = 95
    /\ d[1] # 95
    /\ d[Len(d)] # 95
    /\ \A i \in 1..(Len(d) - 1) : ~(d[i] = 95 /\ d[i + 1] = 95)

RECURSIVE DigitsValue(_, _)
DigitsValue(d, acc) ==
    IF d = <<>> THEN acc
    ELSE IF Head(d) = 95 THEN DigitsValue(Tail(d), acc)
    ELSE DigitsValue(Tail(d), 10 * acc + DigitVal(Head(d)))

\* int(text): [ok, value]; ok = FALSE is ValueError
PyInt(text) ==
    LET t == RStrip(LStrip(text, IntWhitespace), IntWhitespace)
        signed == t # <<>> /\ Head(t) \in {43, 45}
        d == IF signed THEN Tail(t) ELSE t
    IN  IF ValidDigits(d)
        THEN [ok |-> TRUE,
              value |-> IF signed /\ Head(t) = 45
                        THEN 0 - DigitsValue(d, 0)
                        ELSE DigitsValue(d, 0)]
        ELSE [ok |-> FALSE, value |-> 0]

Max2(a, b) == IF a >= b THEN a ELSE b

Min2(a, b) == IF a <= b THEN a ELSE b

ClampNone(score) == score

\* min(max(score, 0), 10)
Clamp(score) == Min2(Max2(score, MIN_SCORE), MAX_SCORE)

\* the try/except around int(score_text)
ParseScore(score_text) ==
    LET p == PyInt(score_text)
    IN  IF p.ok THEN Clamp(p.value) ELSE 0

TextBody(t) == [kind |-> "text", text |-> t]

NotJson == [kind |-> "not_json", text |-> <<>>]

NoChoices == [kind |-> "no_choices", text |-> <<>>]

\* requests.post raised instead of returning a response
NoReply == [status |-> 0, body |-> [kind |-> "none", text |-> <<>>]]

\* what score_response does with the response of requests.post
HandleResponse(r) ==
    IF r.status = HTTP_OK
    THEN CASE r.body.kind = "not_json" -> Raised("JSONDecodeError")
           [] r.body.kind = "no_choices" -> Raised("KeyError")
           [] OTHER -> Returned(ParseScore(Strip(r.body.text)))
    ELSE Returned(0)

\* the comparison on the last line of score_response
ExactMatch(ua, ca) == IF Strip(Lower(ua)) = Strip(Lower(ca)) THEN 10 ELSE 0

score_response(ua, ca, ai, r) ==
    IF ai
    THEN IF r = NoReply THEN Raised("RequestException") ELSE HandleResponse(r)
    ELSE Returned(ExactMatch(ua, ca))

----------------------------------------------------------------------------
(* load_questions *)

NoDf == [columns |-> <<>>, rows |-> <<>>, loaded |-> FALSE]

Question == <<81, 117, 101, 115, 116, 105, 111, 110>>

Answer == <<65, 110, 115, 119, 101, 114>>

\* rename(columns=lambda x: x.strip())
StripColumns(columns) == [i \in 1..Len(columns) |-> Strip(columns[i])]

HasColumn(columns, name) == \E i \in 1..Len(columns) : columns[i] = name

SchemaErrorIfBothMissing(columns) ==
    ~HasColumn(columns, Question) /\ ~HasColumn(columns, Answer)

\* the condition of the KeyError
SchemaError(columns) ==
    ~HasColumn(columns, Question) \/ ~HasColumn(columns, Answer)

\* the body of load_questions: [ok, exc, df]
load_questions(exists, sh) ==
    IF ~exists
    THEN [ok |-> FALSE, exc |-> "FileNotFoundError", df |-> NoDf]
    ELSE LET columns == StripColumns(sh.columns)
         IN  IF SchemaError(columns)
             THEN [ok |-> FALSE, exc |-> "KeyError", df |-> NoDf]
             ELSE [ok |-> TRUE, exc |-> "none",
                   df |-> [columns |-> columns, rows |-> sh.rows,
                           loaded |-> TRUE]]

\* st.cache_data: a stored return value is reused, an exception is not stored
cached_load_questions(c, exists, sh) ==
    IF c.loaded
    THEN [ok |-> TRUE, exc |-> "none", df |-> c]
    ELSE load_questions(exists, sh)

----------------------------------------------------------------------------
(* save_results *)

ResultRow(name, rec) ==
    [name |-> name, question |-> rec.question, response |-> rec.response,
     score |-> rec.score]

\* CREATE TABLE IF NOT EXISTS, then one INSERT per item of responses
save_results(tbl, name, resp) ==
    [exists |-> TRUE,
     rows |-> tbl.rows \o [i \in 1..Len(resp) |-> ResultRow(name, resp[i])]]

----------------------------------------------------------------------------
(* main *)

\* the names the module binds: its imports, its globals and its functions
ModuleGlobals ==
    {"os", "time", "sqlite3", "st", "pd", "speech_recognition", "requests",
     "openrouter_api_key", "OPENROUTER_URL", "load_questions",
     "transcribe_audio", "score_response", "save_results", "main"}

AnyNameSupplied(name) == TRUE

\* if candidate_name:
NameSupplied(name) == name # <<>>

RECURSIVE SumScores(_)
SumScores(resp) ==
    IF resp = <<>> THEN 0 ELSE Head(resp).score + SumScores(Tail(resp))

TitleEvent == <<"title", 0, 0>>

TextInputEvent == <<"text_input", 0, 0>>

SubheaderEvent(i) == <<"subheader", i, 0>>

FinalEvent(total, max) == <<"final", total, max>>

TranscriptHeadingEvent == <<"heading", 0, 0>>

TranscriptEvent(pos, score) == <<"transcript", pos, score>>

Fail(exc) ==
    /\ pc' = "Failed"
    /\ error' = exc

\* module level: the OPENROUTER_API_KEY check
ModuleInit ==
    /\ pc = "Boot"
    /\ IF api_key_set
       THEN pc' = "Main" /\ error' = error /\ UNCHANGED widget_shown
       ELSE Fail("ValueError") /\ widget_shown' = FALSE
    /\ UNCHANGED <<api_key_set, file_exists, sheet, table0, table, cache,
                   text_input, rerun_requested, questions_df,
                   candidate_name, responses, idx, display, mic>>
    /\ UNCHANGED scoreVars

\* main: st.title, questions_df = load_questions()
LoadQuestions ==
    /\ pc = "Main"
    /\ ~rerun_requested
    /\ display' = Append(display, TitleEvent)
    /\ LET r == cached_load_questions(cache, file_exists, sheet)
       IN  IF r.ok
           THEN /\ questions_df' = r.df
                /\ cache' = r.df
                /\ pc' = "TextInput"
                /\ error' = error
                /\ UNCHANGED widget_shown
           ELSE /\ Fail(r.exc)
                /\ widget_shown' = FALSE
                /\ UNCHANGED <<questions_df, cache>>
    /\ UNCHANGED <<api_key_set, file_exists, sheet, table0, table,
                   text_input, rerun_requested, candidate_name, responses,
                   idx, mic>>
    /\ UNCHANGED scoreVars

\* main: candidate_name = st.text_input(...); if candidate_name: responses = {}
ReadName ==
    /\ pc = "TextInput"
    /\ ~rerun_requested
    /\ display' = Append(display, TextInputEvent)
    /\ widget_shown' = TRUE
    /\ candidate_name' = text_input
    /\ IF NameSupplied(text_input)
       THEN /\ responses' = <<>>
            /\ idx' = 0
            /\ pc' = "Loop"
       ELSE /\ pc' = "AwaitingCandidateName"
            /\ UNCHANGED <<responses, idx>>
    /\ UNCHANGED <<api_key_set, file_exists, sheet, table0, table, cache,
                   text_input, rerun_requested, error, questions_df, mic>>
    /\ UNCHANGED scoreVars

\* main: for idx, row in questions_df.iterrows()
NextQuestion ==
    /\ pc = "Loop"
    /\ pc' = IF idx < Len(questions_df.rows) THEN "AskingQuestion"
             ELSE "Finalizing"
    /\ UNCHANGED <<api_key_set, file_exists, sheet, table0, table, cache,
                   text_input, widget_shown, rerun_requested, error,
                   questions_df, candidate_name, responses, idx, display,
                   mic>>
    /\ UNCHANGED scoreVars

\* main: st.subheader(question)
AskQuestion ==
    /\ pc = "AskingQuestion"
    /\ ~rerun_requested
    /\ display' = Append(display, SubheaderEvent(idx))
    /\ pc' = "Recording"
    /\ UNCHANGED <<api_key_set, file_exists, sheet, table0, table, cache,
                   text_input, widget_shown, rerun_requested, error,
                   questions_df, candidate_name, responses, idx, mic>>
    /\ UNCHANGED scoreVars

\* main: recognizer = sr.Recognizer().  The module imports
\* speech_recognition under its own name, so the global `sr` is unbound and
\* the lookup raises NameError; the statement is outside every try block.
\* The rest of the loop body is never reached.
MakeRecognizer ==
    /\ pc = "Recording"
    /\ "sr" \notin ModuleGlobals
    /\ Fail("NameError")
    /\ UNCHANGED <<api_key_set, file_exists, sheet, table0, table, cache,
                   text_input, widget_shown, rerun_requested, questions_df,
                   candidate_name, responses, idx, display, mic>>
    /\ UNCHANGED scoreVars

\* main: save_results(candidate_name, responses)
SaveResults ==
    /\ pc = "Finalizing"
    /\ table' = save_results(table, candidate_name, responses)
    /\ pc' = "Report"
    /\ UNCHANGED <<api_key_set, file_exists, sheet, table0, cache,
                   text_input, widget_shown, rerun_requested, error,
                   questions_df, candidate_name, responses, idx, display,
                   mic>>
    /\ UNCHANGED scoreVars

\* main: total_score and st.success with the final score
FinalScore ==
    /\ pc = "Report"
    /\ ~rerun_requested
    /\ display' = Append(display, FinalEvent(SumScores(responses),
                                             Len(questions_df.rows) * 10))
    /\ pc' = "Transcript"
    /\ UNCHANGED <<api_key_set, file_exists, sheet, table0, table, cache,
                   text_input, widget_shown, rerun_requested, error,
                   questions_df, candidate_name, responses, idx, mic>>
    /\ UNCHANGED scoreVars

\* main: the transcript heading and one line per item of responses
FinalTranscript ==
    /\ pc = "Transcript"
    /\ ~rerun_requested
    /\ display' = display
          \o <<TranscriptHeadingEvent>>
          \o [i \in 1..Len(responses) |->
                 TranscriptEvent(i, responses[i].score)]
    /\ pc' = "Done"
    /\ UNCHANGED <<api_key_set, file_exists, sheet, table0, table, cache,
                   text_input, widget_shown, rerun_requested, error,
                   questions_df, candidate_name, responses, idx, mic>>
    /\ UNCHANGED scoreVars

----------------------------------------------------------------------------
(* The page *)

CandidateNames == {<<>>, <<32>>, <<65, 110, 110>>}

\* the script run is over: it returned or an exception ended it
RunEnded == pc \in {"AwaitingCandidateName", "Done", "Failed"}

\* the next statement of the run is an st call, where Streamlit stops a
\* script it has been asked to run again
AtStCall == pc \in {"Main", "TextInput", "AskingQuestion", "Report", "Transcript"}

\* the candidate changes the text input on the page, at any time
EnterName(name) ==
    /\ widget_shown
    /\ name # text_input
    /\ text_input' = name
    /\ rerun_requested' = TRUE
    /\ UNCHANGED <<api_key_set, file_exists, sheet, table0, table, cache,
                   widget_shown, pc, error, questions_df, candidate_name,
                   responses, idx, display, mic>>
    /\ UNCHANGED scoreVars

\* the Rerun command of the page: same widget values
Rerun ==
    /\ rerun_requested' = TRUE
    /\ UNCHANGED <<api_key_set, file_exists, sheet, table0, table, cache,
                   text_input, widget_shown, pc, error, questions_df,
                   candidate_name, responses, idx, display, mic>>
    /\ UNCHANGED scoreVars

\* the page is loaded anew: a new session, whose widgets have no value yet
Reload ==
    /\ text_input' = <<>>
    /\ widget_shown' = FALSE
    /\ rerun_requested' = TRUE
    /\ UNCHANGED <<api_key_set, file_exists, sheet, table0, table, cache, pc,
                   error, questions_df, candidate_name, responses, idx,
                   display, mic>>
    /\ UNCHANGED scoreVars

\* Streamlit runs the script again from the top, once the running script
\* has ended or has come to an st call.  st.cache_data and interviews.db
\* outlive the run, the script's variables do not.
StartRun ==
    /\ rerun_requested
    /\ RunEnded \/ AtStCall
    /\ rerun_requested' = FALSE
    /\ pc' = "Boot"
    /\ error' = "none"
    /\ questions_df' = NoDf
    /\ candidate_name' = <<>>
    /\ responses' = <<>>
    /\ idx' = 0
    /\ display' = <<>>
    /\ table0' = table
    /\ UNCHANGED <<api_key_set, file_exists, sheet, table, cache, text_input,
                   widget_shown, mic>>
    /\ UNCHANGED scoreVars

----------------------------------------------------------------------------
(* The inputs of a page *)

Padded(name) == <<32>> \o name \o <<32>>

Headers ==
    {<<Question, Answer>>,
     <<Padded(Question), Answer \o <<13, 10>> >>,
     <<Answer, Question, <<78, 111, 116, 101, 115>> >>,
     <<Question>>,
     <<Padded(Answer)>>,
     << <<113, 117, 101, 115, 116, 105, 111, 110>>, Answer>>,
     <<>>}

RowPool ==
    {[Question |-> <<87, 104, 97, 116, 32, 105, 115, 32, 50, 43, 50, 63>>,
      Answer |-> <<52>>],
     [Question |-> <<67, 97, 112, 105, 116, 97, 108, 32, 111, 102, 32, 70, 114, 97, 110, 99, 101, 63>>,
      Answer |-> <<80, 97, 114, 105, 115>>],
     [Question |-> <<87, 104, 97, 116, 32, 105, 115, 32, 50, 43, 50, 63>>,
      Answer |-> <<102, 111, 117, 114>>]}

Sheets ==
    {[columns |-> h, rows |-> r] :
        h \in Headers, r \in UNION {[1..k -> RowPool] : k \in 0..MaxRows}}

OldRow ==
    [name |-> <<66, 111, 98>>, question |-> <<87, 104, 97, 116, 32, 105, 115, 32, 50, 43, 50, 63>>,
     response |-> <<52>>, score |-> 10]

InitialTables ==
    {[exists |-> FALSE, rows |-> <<>>],
     [exists |-> TRUE, rows |-> <<>>],
     [exists |-> TRUE, rows |-> <<OldRow>>]}

ScoreIdle ==
    /\ posts = <<>>
    /\ user_answer = <<>>
    /\ correct_answer = <<>>
    /\ use_ai = TRUE
    /\ reply = NoReply
    /\ outcome = Pending
    /\ spc = "idle"

Init ==
    /\ api_key_set \in BOOLEAN
    /\ file_exists \in BOOLEAN
    /\ sheet \in Sheets
    /\ table0 \in InitialTables
    /\ table = table0
    /\ cache = NoDf
    /\ text_input = <<>>
    /\ widget_shown = FALSE
    /\ rerun_requested = FALSE
    /\ pc = "Boot"
    /\ error = "none"
    /\ questions_df = NoDf
    /\ candidate_name = <<>>
    /\ responses = <<>>
    /\ idx = 0
    /\ display = <<>>
    /\ mic = [held |-> FALSE, opened |-> <<>>]
    /\ ScoreIdle

Next ==
    \/ ModuleInit
    \/ LoadQuestions
    \/ ReadName
    \/ NextQuestion
    \/ AskQuestion
    \/ MakeRecognizer
    \/ SaveResults
    \/ FinalScore
    \/ FinalTranscript
    \/ \E name \in CandidateNames : EnterName(name)
    \/ Rerun
    \/ Reload
    \/ StartRun

Spec == Init /\ [][Next]_vars

----------------------------------------------------------------------------
(* score_response on drawn inputs *)

StatusCodes == {200, 201, 500}

\* 1 5 7 - + . _ space, carriage return, ARABIC-INDIC DIGIT THREE
ReplyAlphabet == {49, 53, 55, 45, 43, 46, 95, 32, 13, 1635}

\* space, A, a, GREEK CAPITAL SIGMA, GREEK SMALL FINAL SIGMA
AnswerAlphabet == {32, 65, 97, 931, 962}

Replies ==
    {NoReply} \cup
    {[status |-> st, body |-> b] :
        st \in StatusCodes,
        b \in {NotJson, NoChoices}
              \cup {TextBody(t) : t \in Texts(ReplyAlphabet, MaxReplyLen)}}

PromptAnswers == {<<>>, <<97>>}

Imported ==
    /\ api_key_set = TRUE
    /\ file_exists = TRUE
    /\ sheet = [columns |-> <<Question, Answer>>, rows |-> <<>>]
    /\ table0 = [exists |-> FALSE, rows |-> <<>>]
    /\ table = table0
    /\ cache = NoDf
    /\ text_input = <<>>
    /\ widget_shown = FALSE
    /\ rerun_requested = FALSE
    /\ pc = "Imported"
    /\ error = "none"
    /\ questions_df = NoDf
    /\ candidate_name = <<>>
    /\ responses = <<>>
    /\ idx = 0
    /\ display = <<>>
    /\ mic = [held |-> FALSE, opened |-> <<>>]
    /\ posts = <<>>
    /\ outcome = Pending
    /\ spc = "call"

ScoreInit ==
    /\ Imported
    /\ use_ai = TRUE
    /\ user_answer \in PromptAnswers
    /\ correct_answer \in PromptAnswers
    /\ reply \in Replies

MatchInit ==
    /\ Imported
    /\ use_ai = FALSE
    /\ user_answer \in Texts(AnswerAlphabet, MaxAnswerLen)
    /\ correct_answer \in Texts(AnswerAlphabet, MaxAnswerLen)
    /\ reply = NoReply

\* score_response(user_answer, correct_answer, use_ai=True)
ScoreWithModel ==
    /\ spc = "call"
    /\ use_ai
    /\ posts' = Append(posts, <<user_answer, correct_answer>>)
    /\ outcome' = score_response(user_answer, correct_answer, use_ai, reply)
    /\ spc' = "done"
    /\ UNCHANGED scoreInputs
    /\ UNCHANGED sessionVars

\* score_response(user_answer, correct_answer, use_ai=False)
ScoreExactMatch ==
    /\ spc = "call"
    /\ ~use_ai
    /\ outcome' = score_response(user_answer, correct_answer, use_ai, reply)
    /\ spc' = "done"
    /\ UNCHANGED posts
    /\ UNCHANGED scoreInputs
    /\ UNCHANGED sessionVars

ScoreNext == ScoreWithModel

ScoreSpec == ScoreInit /\ [][ScoreNext]_vars

MatchNext == ScoreExactMatch

MatchSpec == MatchInit /\ [][MatchNext]_vars

----------------------------------------------------------------------------
(* What the claims speak of, stated without the code's operators *)

NonBlank(s) == {i \in 1..Len(s) : s[i] \notin Whitespace}

\* s without its surrounding whitespace
Trimmed(s) ==
    IF NonBlank(s) = {} THEN <<>>
    ELSE SubSeq(s, Least(NonBlank(s)), Greatest(NonBlank(s)))

\* Unicode case folding: the characters that fold to one other character
FoldRules == {
    <<65, 90, 1, 32>>, <<181, 181, 1, 775>>, <<192, 214, 1, 32>>, <<216,
    222, 1, 32>>, <<256, 302, 2, 1>>, <<306, 310, 2, 1>>, <<313, 327, 2,
    1>>, <<330, 374, 2, 1>>, <<376, 376, 1, -121>>, <<377, 381, 2, 1>>,
    <<383, 383, 1, -268>>, <<385, 385, 1, 210>>, <<386, 388, 2, 1>>, <<390,
    390, 1, 206>>, <<391, 391, 1, 1>>, <<393, 394, 1, 205>>, <<395, 395, 1,
    1>>, <<398, 398, 1, 79>>, <<399, 399, 1, 202>>, <<400, 400, 1, 203>>,
    <<401, 401, 1, 1>>, <<403, 403, 1, 205>>, <<404, 404, 1, 207>>, <<406,
    406, 1, 211>>, <<407, 407, 1, 209>>, <<408, 408, 1, 1>>, <<412, 412, 1,
    211>>, <<413, 413, 1, 213>>, <<415, 415, 1, 214>>, <<416, 420, 2, 1>>,
    <<422, 422, 1, 218>>, <<423, 423, 1, 1>>, <<425, 425, 1, 218>>, <<428,
    428, 1, 1>>, <<430, 430, 1, 218>>, <<431, 431, 1, 1>>, <<433, 434, 1,
    217>>, <<435, 437, 2, 1>>, <<439, 439, 1, 219>>, <<440, 440, 1, 1>>,
    <<444, 444, 1, 1>>, <<452, 452, 1, 2>>, <<453, 453, 1, 1>>, <<455, 455,
    1, 2>>, <<456, 456, 1, 1>>, <<458, 458, 1, 2>>, <<459, 475, 2, 1>>,
    <<478, 494, 2, 1>>, <<497, 497, 1, 2>>, <<498, 500, 2, 1>>, <<502, 502,
    1, -97>>, <<503, 503, 1, -56>>, <<504, 542, 2, 1>>, <<544, 544, 1,
    -130>>, <<546, 562, 2, 1>>, <<570, 570, 1, 10795>>, <<571, 571, 1, 1>>,
    <<573, 573, 1, -163>>, <<574, 574, 1, 10792>>, <<577, 577, 1, 1>>,
    <<579, 579, 1, -195>>, <<580, 580, 1, 69>>, <<581, 581, 1, 71>>, <<582,
    590, 2, 1>>, <<837, 837, 1, 116>>, <<880, 882, 2, 1>>, <<886, 886, 1,
    1>>, <<895, 895, 1, 116>>, <<902, 902, 1, 38>>, <<904, 906, 1, 37>>,
    <<908, 908, 1, 64>>, <<910, 911, 1, 63>>, <<913, 929, 1, 32>>, <<931,
    939, 1, 32>>, <<962, 962, 1, 1>>, <<975, 975, 1, 8>>, <<976, 976, 1,
    -30>>, <<977, 977, 1, -25>>, <<981, 981, 1, -15>>, <<982, 982, 1, -22>>,
    <<984, 1006, 2, 1>>, <<1008, 1008, 1, -54>>, <<1009, 1009, 1, -48>>,
    <<1012, 1012, 1, -60>>, <<1013, 1013, 1, -64>>, <<1015, 1015, 1, 1>>,
    <<1017, 1017, 1, -7>>, <<1018, 1018, 1, 1>>, <<1021, 1023, 1, -130>>,
    <<1024, 1039, 1, 80>>, <<1040, 1071, 1, 32>>, <<1120, 1152, 2, 1>>,
    <<1162, 1214, 2, 1>>, <<1216, 1216, 1, 15>>, <<1217, 1229, 2, 1>>,
    <<1232, 1326, 2, 1>>, <<1329, 1366, 1, 48>>, <<4256, 4293, 1, 7264>>,
    <<4295, 4295, 1, 7264>>, <<4301, 4301, 1, 7264>>, <<5112, 5117, 1, -8>>,
    <<7296, 7296, 1, -6222>>, <<7297, 7297, 1, -6221>>, <<7298, 7298, 1,
    -6212>>, <<7299, 7300, 1, -6210>>, <<7301, 7301, 1, -6211>>, <<7302,
    7302, 1, -6204>>, <<7303, 7303, 1, -6180>>, <<7304, 7304, 1, 35267>>,
    <<7312, 7354, 1, -3008>>, <<7357, 7359, 1, -3008>>, <<7680, 7828, 2,
    1>>, <<7835, 7835, 1, -58>>, <<7840, 7934, 2, 1>>, <<7944, 7951, 1,
    -8>>, <<7960, 7965, 1, -8>>, <<7976, 7983, 1, -8>>, <<7992, 7999, 1,
    -8>>, <<8008, 8013, 1, -8>>, <<8025, 8031, 2, -8>>, <<8040, 8047, 1,
    -8>>, <<8120, 8121, 1, -8>>, <<8122, 8123, 1, -74>>, <<8126, 8126, 1,
    -7173>>, <<8136, 8139, 1, -86>>, <<8152, 8153, 1, -8>>, <<8154, 8155, 1,
    -100>>, <<8168, 8169, 1, -8>>, <<8170, 8171, 1, -112>>, <<8172, 8172, 1,
    -7>>, <<8184, 8185, 1, -128>>, <<8186, 8187, 1, -126>>, <<8486, 8486, 1,
    -7517>>, <<8490, 8490, 1, -8383>>, <<8491, 8491, 1, -8262>>, <<8498,
    8498, 1, 28>>, <<8544, 8559, 1, 16>>, <<8579, 8579, 1, 1>>, <<9398,
    9423, 1, 26>>, <<11264, 11311, 1, 48>>, <<11360, 11360, 1, 1>>, <<11362,
    11362, 1, -10743>>, <<11363, 11363, 1, -3814>>, <<11364, 11364, 1,
    -10727>>, <<11367, 11371, 2, 1>>, <<11373, 11373, 1, -10780>>, <<11374,
    11374, 1, -10749>>, <<11375, 11375, 1, -10783>>, <<11376, 11376, 1,
    -10782>>, <<11378, 11378, 1, 1>>, <<11381, 11381, 1, 1>>, <<11390,
    11391, 1, -10815>>, <<11392, 11490, 2, 1>>, <<11499, 11501, 2, 1>>,
    <<11506, 11506, 1, 1>>, <<42560, 42604, 2, 1>>, <<42624, 42650, 2, 1>>,
    <<42786, 42798, 2, 1>>, <<42802, 42862, 2, 1>>, <<42873, 42875, 2, 1>>,
    <<42877, 42877, 1, -35332>>, <<42878, 42886, 2, 1>>, <<42891, 42891, 1,
    1>>, <<42893, 42893, 1, -42280>>, <<42896, 42898, 2, 1>>, <<42902,
    42920, 2, 1>>, <<42922, 42922, 1, -42308>>, <<42923, 42923, 1, -42319>>,
    <<42924, 42924, 1, -42315>>, <<42925, 42925, 1, -42305>>, <<42926,
    42926, 1, -42308>>, <<42928, 42928, 1, -42258>>, <<42929, 42929, 1,
    -42282>>, <<42930, 42930, 1, -42261>>, <<42931, 42931, 1, 928>>,
    <<42932, 42946, 2, 1>>, <<42948, 42948, 1, -48>>, <<42949, 42949, 1,
    -42307>>, <<42950, 42950, 1, -35384>>, <<42951, 42953, 2, 1>>, <<42960,
    42960, 1, 1>>, <<42966, 42968, 2, 1>>, <<42997, 42997, 1, 1>>, <<43888,
    43967, 1, -38864>>, <<65313, 65338, 1, 32>>, <<66560, 66599, 1, 40>>,
    <<66736, 66771, 1, 40>>, <<66928, 66964, 2, 39>>, <<66929, 66937, 2,
    39>>, <<66941, 66953, 2, 39>>, <<66957, 66961, 2, 39>>, <<66965, 66965,
    1, 39>>, <<68736, 68786, 1, 64>>, <<71840, 71871, 1, 32>>, <<93760,
    93791, 1, 32>>, <<125184, 125217, 1, 34>>}

\* Unicode case folding: the characters that fold to several characters
FoldsToSeveral == {
    223, 304, 329, 496, 912, 944, 1415, 7830, 7831, 7832, 7833, 7834, 7838,
    8016, 8018, 8020, 8022, 8064, 8065, 8066, 8067, 8068, 8069, 8070, 8071,
    8072, 8073, 8074, 8075, 8076, 8077, 8078, 8079, 8080, 8081, 8082, 8083,
    8084, 8085, 8086, 8087, 8088, 8089, 8090, 8091, 8092, 8093, 8094, 8095,
    8096, 8097, 8098, 8099, 8100, 8101, 8102, 8103, 8104, 8105, 8106, 8107,
    8108, 8109, 8110, 8111, 8114, 8115, 8116, 8118, 8119, 8124, 8130, 8131,
    8132, 8134, 8135, 8140, 8146, 8147, 8150, 8151, 8162, 8163, 8164, 8166,
    8167, 8178, 8179, 8180, 8182, 8183, 8188, 64256, 64257, 64258, 64259,
    64260, 64261, 64262, 64275, 64276, 64277, 64278, 64279}

FoldSeveral(c) ==
    CASE c = 223 -> <<115, 115>>
      [] c = 304 -> <<105, 775>>
      [] c = 329 -> <<700, 110>>
      [] c = 496 -> <<106, 780>>
      [] c = 912 -> <<953, 776, 769>>
      [] c = 944 -> <<965, 776, 769>>
      [] c = 1415 -> <<1381, 1410>>
      [] c = 7830 -> <<104, 817>>
      [] c = 7831 -> <<116, 776>>
      [] c = 7832 -> <<119, 778>>
      [] c = 7833 -> <<121, 778>>
      [] c = 7834 -> <<97, 702>>
      [] c = 7838 -> <<115, 115>>
      [] c = 8016 -> <<965, 787>>
      [] c = 8018 -> <<965, 787, 768>>
      [] c = 8020 -> <<965, 787, 769>>
      [] c = 8022 -> <<965, 787, 834>>
      [] c = 8064 -> <<7936, 953>>
      [] c = 8065 -> <<7937, 953>>
      [] c = 8066 -> <<7938, 953>>
      [] c = 8067 -> <<7939, 953>>
      [] c = 8068 -> <<7940, 953>>
      [] c = 8069 -> <<7941, 953>>
      [] c = 8070 -> <<7942, 953>>
      [] c = 8071 -> <<7943, 953>>
      [] c = 8072 -> <<7936, 953>>
      [] c = 8073 -> <<7937, 953>>
      [] c = 8074 -> <<7938, 953>>
      [] c = 8075 -> <<7939, 953>>
      [] c = 8076 -> <<7940, 953>>
      [] c = 8077 -> <<7941, 953>>
      [] c = 8078 -> <<7942, 953>>
      [] c = 8079 -> <<7943, 953>>
      [] c = 8080 -> <<7968, 953>>
      [] c = 8081 -> <<7969, 953>>
      [] c = 8082 -> <<7970, 953>>
      [] c = 8083 -> <<7971, 953>>
      [] c = 8084 -> <<7972, 953>>
      [] c = 8085 -> <<7973, 953>>
      [] c = 8086 -> <<7974, 953>>
      [] c = 8087 -> <<7975, 953>>
      [] c = 8088 -> <<7968, 953>>
      [] c = 8089 -> <<7969, 953>>
      [] c = 8090 -> <<7970, 953>>
      [] c = 8091 -> <<7971, 953>>
      [] c = 8092 -> <<7972, 953>>
      [] c = 8093 -> <<7973, 953>>
      [] c = 8094 -> <<7974, 953>>
      [] c = 8095 -> <<7975, 953>>
      [] c = 8096 -> <<8032, 953>>
      [] c = 8097 -> <<8033, 953>>
      [] c = 8098 -> <<8034, 953>>
      [] c = 8099 -> <<8035, 953>>
      [] c = 8100 -> <<8036, 953>>
      [] c = 8101 -> <<8037, 953>>
      [] c = 8102 -> <<8038, 953>>
      [] c = 8103 -> <<8039, 953>>
      [] c = 8104 -> <<8032, 953>>
      [] c = 8105 -> <<8033, 953>>
      [] c = 8106 -> <<8034, 953>>
      [] c = 8107 -> <<8035, 953>>
      [] c = 8108 -> <<8036, 953>>
      [] c = 8109 -> <<8037, 953>>
      [] c = 8110 -> <<8038, 953>>
      [] c = 8111 -> <<8039, 953>>
      [] c = 8114 -> <<8048, 953>>
      [] c = 8115 -> <<945, 953>>
      [] c = 8116 -> <<940, 953>>
      [] c = 8118 -> <<945, 834>>
      [] c = 8119 -> <<945, 834, 953>>
      [] c = 8124 -> <<945, 953>>
      [] c = 8130 -> <<8052, 953>>
      [] c = 8131 -> <<951, 953>>
      [] c = 8132 -> <<942, 953>>
      [] c = 8134 -> <<951, 834>>
      [] c = 8135 -> <<951, 834, 953>>
      [] c = 8140 -> <<951, 953>>
      [] c = 8146 -> <<953, 776, 768>>
      [] c = 8147 -> <<953, 776, 769>>
      [] c = 8150 -> <<953, 834>>
      [] c = 8151 -> <<953, 776, 834>>
      [] c = 8162 -> <<965, 776, 768>>
      [] c = 8163 -> <<965, 776, 769>>
      [] c = 8164 -> <<961, 787>>
      [] c = 8166 -> <<965, 834>>
      [] c = 8167 -> <<965, 776, 834>>
      [] c = 8178 -> <<8060, 953>>
      [] c = 8179 -> <<969, 953>>
      [] c = 8180 -> <<974, 953>>
      [] c = 8182 -> <<969, 834>>
      [] c = 8183 -> <<969, 834, 953>>
      [] c = 8188 -> <<969, 953>>
      [] c = 64256 -> <<102, 102>>
      [] c = 64257 -> <<102, 105>>
      [] c = 64258 -> <<102, 108>>
      [] c = 64259 -> <<102, 102, 105>>
      [] c = 64260 -> <<102, 102, 108>>
      [] c = 64261 -> <<115, 116>>
      [] c = 64262 -> <<115, 116>>
      [] c = 64275 -> <<1396, 1398>>
      [] c = 64276 -> <<1396, 1381>>
      [] c = 64277 -> <<1396, 1387>>
      [] c = 64278 -> <<1406, 1398>>
      [] c = 64279 -> <<1396, 1389>>

FoldChar(c) ==
    IF c \in FoldsToSeveral THEN FoldSeveral(c)
    ELSE IF \E r \in FoldRules : InRule(c, r)
    THEN <<c + (CHOOSE r \in FoldRules : InRule(c, r))[4]>>
    ELSE <<c>>

RECURSIVE CaseFolded(_)
CaseFolded(s) ==
    IF s = <<>> THEN <<>> ELSE FoldChar(Head(s)) \o CaseFolded(Tail(s))

\* an optional sign followed by decimal digits only
PlainInteger(t) ==
    LET d == IF t # <<>> /\ t[1] \in {43, 45} THEN SubSeq(t, 2, Len(t)) ELSE t
    IN  d # <<>> /\ \A i \in 1..Len(d) : IsDigit(d[i])

RECURSIVE Pow10(_)
Pow10(k) == IF k = 0 THEN 1 ELSE 10 * Pow10(k - 1)

RECURSIVE PlaceSum(_, _)
PlaceSum(d, i) ==
    IF i > Len(d) THEN 0
    ELSE DigitVal(d[i]) * Pow10(Len(d) - i) + PlaceSum(d, i + 1)

\* the integer a plain integer text denotes
Denoted(t) ==
    IF t[1] = 45 THEN 0 - PlaceSum(SubSeq(t, 2, Len(t)), 1)
    ELSE IF t[1] = 43 THEN PlaceSum(SubSeq(t, 2, Len(t)), 1)
    ELSE PlaceSum(t, 1)

Into0To10(n) == IF n < 0 THEN 0 ELSE IF n > 10 THEN 10 ELSE n

\* text that no reading takes for an integer
NotNumeric(t) ==
    t = <<>> \/ \E i \in 1..Len(t) : ~IsDigit(t[i]) /\ t[i] \notin {43, 45, 95}

\* the service answered, and where the body is read it carries a completion
HasCompletion(r) ==
    r # NoReply /\ (r.status # HTTP_OK \/ r.body.kind = "text")

Asked == SelectSeq(display, LAMBDA e : e[1] = "subheader")

AskedInOrder(n) == Asked = [i \in 1..n |-> SubheaderEvent(i - 1)]

Finals == SelectSeq(display, LAMBDA e : e[1] = "final")

Transcript == SelectSeq(display, LAMBDA e : e[1] = "transcript")

Captures(i) == Cardinality({k \in 1..Len(mic.opened) : mic.opened[k] = i})

QuestionTexts(df) == {df.rows[i].Question : i \in 1..Len(df.rows)}

Recorded == {responses[i].question : i \in 1..Len(responses)}

LoopStarted == Asked # <<>>

\* the run of a session (a run with a candidate name) is over
SessionEnded == candidate_name # <<>> /\ pc \in {"Done", "Failed"}

\* this run has asked, captured, scored, recorded and stored nothing
NothingAsked ==
    /\ Asked = <<>>
    /\ mic = [held |-> FALSE, opened |-> <<>>]
    /\ posts = <<>>
    /\ responses = <<>>
    /\ table = table0

LacksRequiredColumn(columns) ==
    \/ ~\E i \in 1..Len(columns) : Trimmed(columns[i]) = Question
    \/ ~\E i \in 1..Len(columns) : Trimmed(columns[i]) = Answer

LoadAttempted ==
    pc \notin {"Boot", "Main"} /\ ~(pc = "Failed" /\ error = "ValueError")

----------------------------------------------------------------------------
(* Claims *)

\* C1: in model mode, whatever status code and completion text the service
\* sends, score_response returns (never raises) an integer in 0..10: a reply
\* whose trimmed text is an integer n gives n clamped into 0..10, a reply
\* that is not numeric gives 0, and a non-200 status gives 0.
C1_ScoreWithinRange ==
    (spc = "done" /\ use_ai /\ HasCompletion(reply)) =>
        /\ outcome.kind = "return"
        /\ outcome.value \in 0..10
        /\ reply.status # HTTP_OK => outcome.value = 0
        /\ reply.status = HTTP_OK =>
              LET t == Trimmed(reply.body.text)
              IN  /\ PlainInteger(t) => outcome.value = Into0To10(Denoted(t))
                  /\ NotNumeric(t) => outcome.value = 0

C1_Witness ==
    /\ spc = "done"
    /\ use_ai
    /\ reply = [status |-> 200, body |-> TextBody(<<49, 53, 13>>)]
    /\ outcome = Returned(10)

\* C2 (as claimed): in non-model mode score_response returns 10 exactly when
\* the two answers are equal after trimming surrounding whitespace and case
\* folding, 0 otherwise, and posts nothing to the remote service.
C2_ExactMatchScore ==
    (spc = "done" /\ ~use_ai) =>
        /\ outcome.kind = "return"
        /\ outcome.value =
              IF CaseFolded(Trimmed(user_answer))
                    = CaseFolded(Trimmed(correct_answer))
              THEN 10 ELSE 0
        /\ posts = <<>>

\* C3 (as claimed): once the question loop has started, no failure inside a
\* question ends the session with an exception.
C3_NoQuestionFailureEndsSession == LoopStarted => pc # "Failed"

\* C4: in a run with an empty candidate name the script gets no further than
\* waiting for the name, and the run asks, captures, scores, records and
\* stores nothing.
C4_EntryGuard ==
    candidate_name = <<>> =>
        /\ pc \in {"Boot", "Main", "TextInput", "AwaitingCandidateName", "Failed"}
        /\ pc = "Failed" => error \in {"ValueError", "FileNotFoundError", "KeyError"}
        /\ NothingAsked

C4_Witness ==
    /\ pc = "AwaitingCandidateName"
    /\ candidate_name = <<>>
    /\ text_input = <<>>
    /\ Len(questions_df.rows) = 2

\* C5 (as claimed): a session with a non-empty candidate name ends in Done,
\* having asked and scored every question 0..N-1 once, in document order.
C5_SessionRunsToDone ==
    SessionEnded =>
        /\ pc = "Done"
        /\ AskedInOrder(Len(questions_df.rows))
        /\ Len(posts) = Len(questions_df.rows)

\* C6 (as claimed): the microphone is acquired exactly once for every
\* question, is free outside the capture, and no question is captured twice.
C6_OneCapturePerQuestion ==
    /\ pc # "Recording" => ~mic.held
    /\ \A i \in 0..(Len(questions_df.rows) - 1) :
          /\ Captures(i) <= 1
          /\ (i < idx \/ (i = idx /\ LoopStarted /\ pc \notin {"AskingQuestion", "Recording"}))
                => Captures(i) = 1

\* C7 (as claimed): the table is untouched until Finalizing, and the ended
\* session has added exactly one row per record of a mapping that holds a
\* record for every question, leaving the older rows as they were.
C7_RowsWrittenInFinalizing ==
    /\ pc \notin {"Report", "Transcript", "Done"} => table = table0
    /\ SessionEnded =>
          /\ table.rows =
                table0.rows \o
                [i \in 1..Len(responses) |-> ResultRow(candidate_name, responses[i])]
          /\ Recorded = QuestionTexts(questions_df)

\* C8 (as claimed): the ended session shows one final aggregate, with
\* totalScore the sum of the recorded scores and maxScore ten times the
\* number of questions, 0 <= totalScore <= maxScore.
C8_FinalAggregate ==
    SessionEnded =>
        /\ Len(Finals) = 1
        /\ Finals[1][2] = SumScores(responses)
        /\ Finals[1][3] = 10 * Len(questions_df.rows)
        /\ 0 <= Finals[1][2] /\ Finals[1][2] <= Finals[1][3]

\* C9: loading an absent sheet fails with FileNotFoundError and loading a
\* sheet without a Question or an Answer column (names trimmed) fails with
\* KeyError, both with nothing asked, captured, scored or stored.
C9_LoadFailsEarly ==
    /\ (LoadAttempted /\ ~file_exists) =>
          pc = "Failed" /\ error = "FileNotFoundError" /\ NothingAsked
    /\ (LoadAttempted /\ file_exists /\ LacksRequiredColumn(sheet.columns)) =>
          pc = "Failed" /\ error = "KeyError" /\ NothingAsked

C9_Witness ==
    /\ pc = "Failed"
    /\ error = "KeyError"
    /\ sheet.columns = <<Question>>
    /\ Len(sheet.rows) = 2
    /\ display = <<TitleEvent>>

\* C10 (as claimed): when several rows carry the same question text every
\* row is asked and scored, and the ended session holds, stores and shows
\* one record per distinct question text.
C10_LastWriteWins ==
    (SessionEnded
        /\ Cardinality(QuestionTexts(questions_df)) < Len(questions_df.rows)) =>
        /\ AskedInOrder(Len(questions_df.rows))
        /\ Len(posts) = Len(questions_df.rows)
        /\ Len(responses) = Cardinality(QuestionTexts(questions_df))
        /\ Len(table.rows) - Len(table0.rows) = Cardinality(QuestionTexts(questions_df))
        /\ Len(Transcript) = Cardinality(QuestionTexts(questions_df))

====
